---- MODULE Spec2Model ----
(***************************************************************************)
(* Student Management API (src/main.py, src/database.py): the users table  *)
(* of the SQLite store, the pydantic request schema and the five /users    *)
(* handlers.  Spec runs the handlers one request at a time, each as one    *)
(* atomic step; SpecConc runs them in concurrent sessions, split at the    *)
(* session's round trips to the store.                                     *)
(*                                                                         *)
(* Strings are sequences of one-character strings, so that the lax         *)
(* string-to-integer coercion of the request schema is computed.           *)
(***************************************************************************)
EXTENDS Integers, Sequences, FiniteSets, TLC

\* ------------------------------------------------------------------ bounds
\* Largest id the store hands out in the model (create is disabled beyond).
MaxId == 2
\* Largest reading of the clock behind datetime.utcnow.
MaxClock == 1
\* Largest skip and limit a list request is given (besides the default limit).
MaxPage == 1

\* ------------------------------------------------------- program constants
DefaultSkip == 0
DefaultLimit == 100

VARIABLES
    users,      \* the users table: the committed rows, in rowid (id) order
    now,        \* the clock read by datetime.utcnow
    req,        \* the request answered last
    resp,       \* its response
    assigned,   \* history: every id a successful create has assigned so far
    before,     \* history: <<i, j>> when stored record i was created before stored record j
    sess        \* SpecConc: the open session of each concurrent request

vars == <<users, now, req, resp, assigned, before, sess>>

\* ------------------------------------------------------------ JSON values
Digits == {"0", "1", "2", "3", "4", "5", "6", "7", "8", "9"}

DigitVal(c) ==
    CASE c = "0" -> 0 [] c = "1" -> 1 [] c = "2" -> 2 [] c = "3" -> 3
      [] c = "4" -> 4 [] c = "5" -> 5 [] c = "6" -> 6 [] c = "7" -> 7
      [] c = "8" -> 8 [] c = "9" -> 9

JStr(s) == [k |-> "str", s |-> s, n |-> 0]
JInt(n) == [k |-> "int", s |-> <<>>, n |-> n]
JMissing == [k |-> "missing", s |-> <<>>, n |-> 0]

IsNumeric(s) == Len(s) > 0 /\ \A i \in 1..Len(s) : s[i] \in Digits

RECURSIVE ParseInt(_)
ParseInt(s) ==
    IF Len(s) = 0 THEN 0
    ELSE 10 * ParseInt(SubSeq(s, 1, Len(s) - 1)) + DigitVal(s[Len(s)])

\* A field declared str takes a JSON string only.
StrOk(v) == v.k = "str"

\* A field declared int takes a JSON integer, and a string of digits, which
\* it converts (the schema is not strict).
IntOk(v) == v.k = "int" \/ (v.k = "str" /\ IsNumeric(v.s))

IntOf(v) == IF v.k = "int" THEN v.n ELSE ParseInt(v.s)

\* Faulty variant: the name's type is not checked.
Valid_anyName(body) == body.name.k # "missing" /\ StrOk(body.email) /\ IntOk(body.age)

\* UserBase / UserCreate: name: str, email: str, age: int, all required.
Valid(body) == StrOk(body.name) /\ StrOk(body.email) /\ IntOk(body.age)

UserCreate(body) ==
    [name |-> body.name.s, email |-> body.email.s, age |-> IntOf(body.age)]

\* ----------------------------------------------------------------- inputs
Names == {<<"a">>, <<"b">>}
Emails == {<<"x">>, <<"y">>}
Ages == {5, 7}

Body(n, e, a) == [name |-> n, email |-> e, age |-> a]

GoodBodies == {Body(JStr(n), JStr(e), JInt(a)) : n \in Names, e \in Emails, a \in Ages}

OddBodies ==
    { Body(JStr(<<"a">>), JStr(<<"x">>), JMissing),
      Body(JStr(<<"a">>), JMissing, JInt(5)),
      Body(JInt(5), JStr(<<"y">>), JInt(5)),
      Body(JStr(<<"b">>), JStr(<<"y">>), JStr(<<"o">>)),
      Body(JStr(<<"b">>), JStr(<<"x">>), JStr(<<"7">>)),
      Body(JStr(<<"b">>), JStr(<<"y">>), JStr(<<"7">>)) }

Bodies == GoodBodies \cup OddBodies

NoBody == Body(JMissing, JMissing, JMissing)

Ids == 1..MaxId

\* --------------------------------------------------------- the users table
NoUser == [id |-> 0, name |-> <<>>, email |-> <<>>, age |-> 0, created_at |-> 0]

Min(a, b) == IF a < b THEN a ELSE b

RECURSIVE MaxRowId(_)
MaxRowId(us) ==
    IF Len(us) = 0 THEN 0
    ELSE LET m == MaxRowId(Tail(us)) IN IF Head(us).id > m THEN Head(us).id ELSE m

\* Faulty variant: the smallest id no row has.
NextId_gap(us) == CHOOSE n \in 1..(Len(us) + 1) : \A i \in 1..Len(us) : us[i].id # n

\* id = Column(Integer, primary_key=True): the rowid of the table; a row
\* inserted without one gets the largest rowid in the table plus one.
NextId(us) == MaxRowId(us) + 1

HasId(us, id) == \E i \in 1..Len(us) : us[i].id = id

Fetch(us, id) ==
    IF HasId(us, id) THEN us[CHOOSE i \in 1..Len(us) : us[i].id = id] ELSE NoUser

\* Faulty variant: email without unique=True.
UniqueEmails_off(us) == TRUE

\* email = Column(String, unique=True): the unique index on email.
UniqueEmails(us) ==
    \A i, j \in 1..Len(us) : i # j => us[i].email # us[j].email

\* Faulty variant: name and email swapped.
NewRow_swap(u, id, t) ==
    [id |-> id, name |-> u.email, email |-> u.name, age |-> u.age, created_at |-> t]

\* User(name=..., email=..., age=...) with the id and created_at defaults.
NewRow(u, id, t) ==
    [id |-> id, name |-> u.name, email |-> u.email, age |-> u.age, created_at |-> t]

\* Faulty variant: created_at stamped on update as well.
SetFields_stamp(row, u) ==
    [row EXCEPT !.name = u.name, !.email = u.email, !.age = u.age, !.created_at = now]

\* setattr(db_user, 'name' / 'email' / 'age', ...)
SetFields(row, u) ==
    [row EXCEPT !.name = u.name, !.email = u.email, !.age = u.age]

\* INSERT: the table is kept in rowid order.
Insert(us, row) ==
    LET lower == SelectSeq(us, LAMBDA r : r.id < row.id)
        upper == SelectSeq(us, LAMBDA r : r.id >= row.id)
    IN  lower \o <<row>> \o upper

\* UPDATE ... WHERE id: the row keeps its place.
Replace(us, id, row) ==
    [i \in 1..Len(us) |-> IF us[i].id = id THEN row ELSE us[i]]

\* Faulty variant: the delete is never committed.
Remove_none(us, id) == us

\* DELETE ... WHERE id
RECURSIVE Remove(_, _)
Remove(us, id) ==
    IF Len(us) = 0 THEN <<>>
    ELSE IF Head(us).id = id THEN Remove(Tail(us), id)
    ELSE <<Head(us)>> \o Remove(Tail(us), id)

\* query(User).offset(skip).limit(limit).all(): no ORDER BY, a scan of the
\* table, which SQLite walks in rowid order.
Page(us, skip, limit) == SubSeq(us, skip + 1, Min(skip + limit, Len(us)))

\* datetime.utcnow: the clock does not run backwards.
Ticks == {t \in now..(now + 1) : t <= MaxClock}

\* -------------------------------------------------------------- responses
UserResponse(row) ==
    [id |-> row.id, name |-> row.name, email |-> row.email, age |-> row.age,
     created_at |-> row.created_at]

\* A response: the status and, of the body, the record, the list, the
\* "detail" of an error or the "message" of delete_user.
Response(st, u, l, d, m) ==
    [status |-> st, user |-> u, list |-> l, detail |-> d, message |-> m]

OkUser(row) == Response(200, UserResponse(row), <<>>, "", "")
OkList(rows) ==
    Response(200, NoUser, [i \in 1..Len(rows) |-> UserResponse(rows[i])], "", "")
OkDeleted == Response(200, NoUser, <<>>, "", "User deleted successfully")
\* Faulty variant: the framework's own 404.
NotFound_bare == Response(404, NoUser, <<>>, "Not Found", "")
NotFound == Response(404, NoUser, <<>>, "User not found", "")
\* Faulty variant: the exception is not caught.
CreateFailed_uncaught == Response(500, NoUser, <<>>, "Internal Server Error", "")
CreateFailed == Response(400, NoUser, <<>>, "Failed to create user", "")
\* The framework's answers: a body the schema rejects, an exception that
\* leaves a handler.
Unprocessable == Response(422, NoUser, <<>>, "validation error", "")
ServerError == Response(500, NoUser, <<>>, "Internal Server Error", "")

Request(op, id, body, skip, limit) ==
    [op |-> op, user_id |-> id, body |-> body, skip |-> skip, limit |-> limit]

\* History of the creation order: record id is created after all stored ones;
\* a deleted record leaves the order.
Born(bf, us, id) ==
    {p \in bf : p[1] # id /\ p[2] # id} \cup {<<us[i].id, id>> : i \in 1..Len(us)}

Gone(bf, id) == {p \in bf : p[1] # id /\ p[2] # id}

Sessions == {1, 2}

NoSession == [pc |-> "idle", op |-> "none", user_id |-> 0, body |-> NoBody, row |-> NoUser]

Init ==
    /\ users = <<>>
    /\ now = 0
    /\ req = Request("none", 0, NoBody, 0, 0)
    /\ resp = Response(0, NoUser, <<>>, "", "")
    /\ assigned = {}
    /\ before = {}
    /\ sess = [s \in Sessions |-> NoSession]

\* ------------------------------------------------- the handlers, one request
\* POST /users/ with a body the schema rejects: 422, the handler is not run.
create_user_invalid(body) ==
    /\ ~Valid(body)
    /\ req' = Request("create", 0, body, 0, 0)
    /\ resp' = Unprocessable
    /\ UNCHANGED <<users, now, assigned, before, sess>>

\* POST /users/: the commit's INSERT breaks the unique index, the handler's
\* except answers 400.
create_user_conflict(body) ==
    /\ Valid(body)
    /\ ~UniqueEmails(Insert(users, NewRow(UserCreate(body), NextId(users), now)))
    /\ req' = Request("create", 0, body, 0, 0)
    /\ resp' = CreateFailed
    /\ UNCHANGED <<users, now, assigned, before, sess>>

\* POST /users/: add, commit, refresh, answer the row as stored.
create_user(body) ==
    /\ Valid(body)
    /\ NextId(users) <= MaxId
    /\ \E t \in Ticks :
         LET id == NextId(users)
             us == Insert(users, NewRow(UserCreate(body), id, t))
         IN  /\ UniqueEmails(us)
             /\ users' = us
             /\ now' = t
             /\ assigned' = assigned \cup {id}
             /\ before' = Born(before, users, id)
             /\ req' = Request("create", 0, body, 0, 0)
             /\ resp' = OkUser(Fetch(us, id))
    /\ UNCHANGED sess

\* GET /users/?skip=&limit=
get_users(skip, limit) ==
    /\ req' = Request("list", 0, NoBody, skip, limit)
    /\ resp' = OkList(Page(users, skip, limit))
    /\ UNCHANGED <<users, now, assigned, before, sess>>

\* GET /users/{user_id}: the first row with the id, 404 when there is none.
get_user_answer(us, id) ==
    IF HasId(us, id) THEN OkUser(Fetch(us, id)) ELSE NotFound

get_user(id) ==
    /\ req' = Request("get", id, NoBody, 0, 0)
    /\ resp' = get_user_answer(users, id)
    /\ UNCHANGED <<users, now, assigned, before, sess>>

\* PUT /users/{user_id} with a body the schema rejects: 422, the handler is
\* not run, whatever the id.
update_user_invalid(id, body) ==
    /\ ~Valid(body)
    /\ req' = Request("update", id, body, 0, 0)
    /\ resp' = Unprocessable
    /\ UNCHANGED <<users, now, assigned, before, sess>>

\* PUT /users/{user_id}: query, 404 when there is no row, else set the three
\* fields, commit, refresh.  A commit that breaks the unique index raises out
\* of the handler (it has no except): 500.
update_user(id, body) ==
    /\ Valid(body)
    /\ req' = Request("update", id, body, 0, 0)
    /\ IF ~HasId(users, id)
       THEN resp' = NotFound /\ UNCHANGED users
       ELSE LET us == Replace(users, id, SetFields(Fetch(users, id), UserCreate(body)))
            IN  IF UniqueEmails(us)
                THEN users' = us /\ resp' = OkUser(Fetch(us, id))
                ELSE resp' = ServerError /\ UNCHANGED users
    /\ UNCHANGED <<now, assigned, before, sess>>

\* DELETE /users/{user_id}
delete_user(id) ==
    /\ req' = Request("delete", id, NoBody, 0, 0)
    /\ IF ~HasId(users, id)
       THEN resp' = NotFound /\ UNCHANGED users
       ELSE users' = Remove(users, id) /\ resp' = OkDeleted
    /\ before' = Gone(before, id)
    /\ UNCHANGED <<now, assigned, sess>>

Next ==
    \/ \E body \in Bodies : create_user_invalid(body)
    \/ \E body \in Bodies : create_user_conflict(body)
    \/ \E body \in Bodies : create_user(body)
    \/ \E skip \in (0..MaxPage) \cup {DefaultSkip}, limit \in (0..MaxPage) \cup {DefaultLimit} :
         get_users(skip, limit)
    \/ \E id \in Ids : get_user(id)
    \/ \E id \in Ids, body \in Bodies : update_user_invalid(id, body)
    \/ \E id \in Ids, body \in Bodies : update_user(id, body)
    \/ \E id \in Ids : delete_user(id)

Spec == Init /\ [][Next]_vars

\* ------------------------------------- the handlers in concurrent sessions
\* Each request runs in a session of its own (get_db); its steps are the
\* session's round trips to the store, and the store runs each of them
\* atomically.  Bodies reach a handler validated, so only valid ones are drawn.
ConcBodies ==
    { Body(JStr(<<"a">>), JStr(<<"x">>), JInt(5)),
      Body(JStr(<<"b">>), JStr(<<"y">>), JInt(7)) }

\* The attributes the unit of work finds changed against the row it loaded:
\* only these are in the UPDATE's SET clause.
Changed(loaded, u) ==
    {f \in {"name", "email", "age"} : loaded[f] # u[f]}

SetChanged(row, u, ch) ==
    [row EXCEPT !.name = IF "name" \in ch THEN u.name ELSE @,
                !.email = IF "email" \in ch THEN u.email ELSE @,
                !.age = IF "age" \in ch THEN u.age ELSE @]

\* A commit expires the attributes the session loaded: the object keeps its
\* identity, the id, and the next access reads the row again.
Expired(row) == [NoUser EXCEPT !.id = row.id]

Step(s, pc, op, id, body, row) ==
    sess' = [sess EXCEPT ![s] = [pc |-> pc, op |-> op, user_id |-> id, body |-> body, row |-> row]]

\* The request of session s is answered and its session closed.
Finish(s, response) ==
    /\ req' = Request(sess[s].op, sess[s].user_id, sess[s].body, 0, 0)
    /\ resp' = response
    /\ sess' = [sess EXCEPT ![s] = NoSession]

\* create_user up to db.add: the row is pending in the session.
begin_create(s, body) ==
    /\ sess[s].pc = "idle"
    /\ Valid(body)
    /\ Step(s, "commit", "create", 0, body, NoUser)
    /\ UNCHANGED <<users, now, req, resp, assigned, before>>

\* db.commit() of create_user: the INSERT and the COMMIT.
commit_create(s) ==
    /\ sess[s].pc = "commit" /\ sess[s].op = "create"
    /\ NextId(users) <= MaxId
    /\ \E t \in Ticks :
         LET row == NewRow(UserCreate(sess[s].body), NextId(users), t)
             us == Insert(users, row)
         IN  /\ UniqueEmails(us)
             /\ users' = us
             /\ now' = t
             /\ assigned' = assigned \cup {row.id}
             /\ before' = Born(before, users, row.id)
             /\ Step(s, "refresh", "create", 0, sess[s].body, Expired(row))
    /\ UNCHANGED <<req, resp>>

\* db.commit() of create_user raising IntegrityError: except answers 400.
commit_create_conflict(s) ==
    /\ sess[s].pc = "commit" /\ sess[s].op = "create"
    /\ ~UniqueEmails(Insert(users, NewRow(UserCreate(sess[s].body), NextId(users), now)))
    /\ Finish(s, CreateFailed)
    /\ UNCHANGED <<users, now, assigned, before>>

\* db.refresh(db_user) of create_user and the answer; a row gone meanwhile
\* raises, and except answers 400.
refresh_create(s) ==
    /\ sess[s].pc = "refresh" /\ sess[s].op = "create"
    /\ Finish(s, IF HasId(users, sess[s].row.id)
                 THEN OkUser(Fetch(users, sess[s].row.id)) ELSE CreateFailed)
    /\ UNCHANGED <<users, now, assigned, before>>

\* update_user / delete_user: the query by id, 404 when there is no row.
begin_missing(s, op, id, body) ==
    /\ sess[s].pc = "idle"
    /\ Valid(body)
    /\ ~HasId(users, id)
    /\ req' = Request(op, id, body, 0, 0)
    /\ resp' = NotFound
    /\ UNCHANGED <<users, now, assigned, before, sess>>

\* update_user: the query by id and the three setattr.
begin_update(s, id, body) ==
    /\ sess[s].pc = "idle"
    /\ Valid(body)
    /\ HasId(users, id)
    /\ Step(s, "commit", "update", id, body, Fetch(users, id))
    /\ UNCHANGED <<users, now, req, resp, assigned, before>>

\* db.commit() of update_user: the UPDATE of the changed attributes WHERE id,
\* if any changed.  No row matched, or the unique index broken: the exception
\* leaves the handler, 500, and the session's close rolls back.
commit_update(s) ==
    /\ sess[s].pc = "commit" /\ sess[s].op = "update"
    /\ LET u == UserCreate(sess[s].body)
           id == sess[s].row.id
           ch == Changed(sess[s].row, u)
           us == Replace(users, id, SetChanged(Fetch(users, id), u, ch))
       IN  IF ch = {}
           THEN Step(s, "refresh", "update", id, sess[s].body, Expired(sess[s].row))
                /\ UNCHANGED <<users, req, resp>>
           ELSE IF HasId(users, id) /\ UniqueEmails(us)
           THEN users' = us /\ Step(s, "refresh", "update", id, sess[s].body, Expired(sess[s].row))
                /\ UNCHANGED <<req, resp>>
           ELSE Finish(s, ServerError) /\ UNCHANGED users
    /\ UNCHANGED <<now, assigned, before>>

\* db.refresh(db_user) of update_user and the answer.
refresh_update(s) ==
    /\ sess[s].pc = "refresh" /\ sess[s].op = "update"
    /\ Finish(s, IF HasId(users, sess[s].row.id)
                 THEN OkUser(Fetch(users, sess[s].row.id)) ELSE ServerError)
    /\ UNCHANGED <<users, now, assigned, before>>

\* delete_user: the query by id and db.delete.
begin_delete(s, id) ==
    /\ sess[s].pc = "idle"
    /\ HasId(users, id)
    /\ Step(s, "commit", "delete", id, NoBody, Fetch(users, id))
    /\ UNCHANGED <<users, now, req, resp, assigned, before>>

\* db.commit() of delete_user: DELETE WHERE id (a row already gone is only
\* warned about) and the answer.
commit_delete(s) ==
    /\ sess[s].pc = "commit" /\ sess[s].op = "delete"
    /\ users' = Remove(users, sess[s].row.id)
    /\ Finish(s, OkDeleted)
    /\ before' = Gone(before, sess[s].row.id)
    /\ UNCHANGED <<now, assigned>>

NextConc ==
    \/ \E s \in Sessions, body \in ConcBodies : begin_create(s, body)
    \/ \E s \in Sessions : commit_create(s)
    \/ \E s \in Sessions : commit_create_conflict(s)
    \/ \E s \in Sessions : refresh_create(s)
    \/ \E s \in Sessions, id \in Ids, body \in ConcBodies : begin_missing(s, "update", id, body)
    \/ \E s \in Sessions, id \in Ids : begin_missing(s, "delete", id, Body(JStr(<<>>), JStr(<<>>), JInt(0)))
    \/ \E s \in Sessions, id \in Ids, body \in ConcBodies : begin_update(s, id, body)
    \/ \E s \in Sessions : commit_update(s)
    \/ \E s \in Sessions : refresh_update(s)
    \/ \E s \in Sessions, id \in Ids : begin_delete(s, id)
    \/ \E s \in Sessions : commit_delete(s)

SpecConc == Init /\ [][NextConc]_vars

\* ================================================================ properties
\* What the properties say of the store, in their own words.
StoredIds(us) == {us[i].id : i \in 1..Len(us)}

Stored(us, id) == id \in StoredIds(us)

RowsWithId(us, id) == {i \in 1..Len(us) : us[i].id = id}

RowsWithEmail(us, e) == {i \in 1..Len(us) : us[i].email = e}

EmailHeld(us, e) == RowsWithEmail(us, e) # {}

RowOf(us, id) == us[CHOOSE i \in 1..Len(us) : us[i].id = id]

\* A body of exactly the schema's types, and the payload it carries.
Typed(body) == body.name.k = "str" /\ body.email.k = "str" /\ body.age.k = "int"

\* Every record of us other than id is in vs as it was, and vs holds no more.
OthersKept(us, vs, id) ==
    /\ StoredIds(vs) \ {id} = StoredIds(us) \ {id}
    /\ \A i \in StoredIds(us) \ {id} : RowOf(vs, i) = RowOf(us, i)
    /\ \A i \in StoredIds(vs) : Cardinality(RowsWithId(vs, i)) = 1

\* ------------------------------------------------------------------------ C1
\* C1: a create with a well-typed body whose email no stored record holds
\* answers 200 with a record of the body's name, email and age and a new id,
\* and a get of that id issued next answers 200 with the same record.
C1_CreateThenGet ==
    [][ /\ ( /\ req'.op = "create"
             /\ Typed(req'.body)
             /\ ~EmailHeld(users, req'.body.email.s) )
           => /\ resp'.status = 200
              /\ resp'.user.name = req'.body.name.s
              /\ resp'.user.email = req'.body.email.s
              /\ resp'.user.age = req'.body.age.n
              /\ resp'.user.id >= 1
              /\ ~Stored(users, resp'.user.id)
              /\ Stored(users', resp'.user.id)
              /\ RowOf(users', resp'.user.id) = resp'.user
        /\ ( /\ req.op = "create" /\ resp.status = 200
             /\ req'.op = "get" /\ req'.user_id = resp.user.id )
           => /\ resp'.status = 200
              /\ resp'.user = resp.user
      ]_vars

C1_Witness ==
    /\ req.op = "create" /\ resp.status = 200
    /\ Len(users) = 2
    /\ resp.user.created_at = 1

\* ------------------------------------------------------------------------ C2
\* C2: a create with a well-typed body whose email a stored record holds
\* answers 400 and leaves the store as it was, with one record of that email.
C2_DuplicateEmail ==
    [][ ( /\ req'.op = "create"
          /\ Typed(req'.body)
          /\ EmailHeld(users, req'.body.email.s) )
        => /\ resp'.status = 400
           /\ users' = users
           /\ Cardinality(RowsWithEmail(users', req'.body.email.s)) = 1
      ]_vars

C2_Witness ==
    /\ req.op = "create" /\ resp.status = 400
    /\ Typed(req.body)
    /\ Len(users) = 2

\* ------------------------------------------------------------------------ C3
\* C3: a delete of a stored id answers 200 with the confirmation message and
\* removes the record; a get of that id issued next answers 404.
C3_DeleteThenGet ==
    [][ /\ (req'.op = "delete" /\ Stored(users, req'.user_id))
           => /\ resp'.status = 200
              /\ resp'.message = "User deleted successfully"
              /\ ~Stored(users', req'.user_id)
        /\ ( /\ req.op = "delete" /\ resp.status = 200
             /\ req'.op = "get" /\ req'.user_id = req.user_id )
           => /\ resp'.status = 404
              /\ resp'.detail = "User not found"
      ]_vars

C3_Witness ==
    /\ req.op = "delete" /\ resp.status = 200
    /\ Len(users) = 1
    /\ req.user_id \in assigned

\* ------------------------------------------------------------------------ C4
\* C4: get, update with a valid body, and delete of an id with no stored
\* record answer 404 "User not found" and leave the store as it was.
C4_MissingId ==
    [][ ( /\ req'.op \in {"get", "update", "delete"}
          /\ req'.op = "update" => Typed(req'.body)
          /\ ~Stored(users, req'.user_id) )
        => /\ resp'.status = 404
           /\ resp'.detail = "User not found"
           /\ users' = users
      ]_vars

C4_Witness ==
    /\ req.op = "update" /\ resp.status = 404
    /\ Len(users) = 1
    /\ req.user_id \in assigned

\* ------------------------------------------------------------------------ C5
\* C5: an update answered 200 sets name, email and age of the record to the
\* body's, keeps its id and created_at, and adds, removes and changes no
\* other record.
C5_UpdateFrame ==
    [][ (req'.op = "update" /\ resp'.status = 200 /\ Typed(req'.body))
        => /\ Stored(users, req'.user_id)
           /\ Stored(users', req'.user_id)
           /\ LET old == RowOf(users, req'.user_id)
                  new == RowOf(users', req'.user_id)
              IN  /\ new.name = req'.body.name.s
                  /\ new.email = req'.body.email.s
                  /\ new.age = req'.body.age.n
                  /\ new.id = old.id
                  /\ new.created_at = old.created_at
                  /\ resp'.user = new
           /\ Len(users') = Len(users)
           /\ OthersKept(users, users', req'.user_id)
      ]_vars

C5_Witness ==
    /\ req.op = "update" /\ resp.status = 200
    /\ Len(users) = 2
    /\ RowOf(users, req.user_id).created_at < now

\* ------------------------------------------------------------------------ C6
\* The place of stored record id in the creation order.
Rank(us, bf, id) == 1 + Cardinality({i \in StoredIds(us) : <<i, id>> \in bf})

PageLen(n, skip, limit) ==
    IF n - skip <= 0 THEN 0 ELSE IF limit < n - skip THEN limit ELSE n - skip

\* C6: list(skip, limit) leaves the store as it was and answers 200 with the
\* stored records at places skip+1 .. skip+limit of the creation order.
C6_ListPage ==
    [][ req'.op = "list"
        => /\ users' = users
           /\ resp'.status = 200
           /\ Len(resp'.list) = PageLen(Len(users), req'.skip, req'.limit)
           /\ \A k \in 1..Len(resp'.list) :
                /\ Stored(users, resp'.list[k].id)
                /\ RowOf(users, resp'.list[k].id) = resp'.list[k]
                /\ Rank(users, before, resp'.list[k].id) = req'.skip + k
      ]_vars

C6_Witness ==
    /\ req.op = "list" /\ req.skip = 1 /\ req.limit = 1
    /\ Len(resp.list) = 1
    /\ Len(users) = 2

\* ------------------------------------------------------------------------ C7
\* A body that is not of the schema's types: a field missing or of another
\* JSON type.
Mistyped(body) == ~Typed(body)

\* A body the schema rejects: a field missing, a name or email that is no
\* string, an age that is neither an integer nor a string of digits.
Rejected(body) ==
    \/ body.name.k # "str"
    \/ body.email.k # "str"
    \/ body.age.k = "missing"
    \/ (body.age.k = "str" /\ \E i \in 1..Len(body.age.s) : body.age.s[i] \notin Digits)
    \/ (body.age.k = "str" /\ body.age.s = <<>>)

DistinctEmails(us) == \A i, j \in 1..Len(us) : i # j => us[i].email # us[j].email

DistinctIds(us) == \A i, j \in 1..Len(us) : i # j => us[i].id # us[j].id

\* Session s is about to commit a row whose email another stored row holds.
WouldCollide(s) ==
    /\ sess[s].pc = "commit"
    /\ sess[s].op \in {"create", "update"}
    /\ \E i \in 1..Len(users) :
         /\ users[i].email = sess[s].body.email.s
         /\ sess[s].op = "update" => users[i].id # sess[s].row.id
    /\ sess[s].op = "update" =>
         (Stored(users, sess[s].row.id) /\ sess[s].row.email # sess[s].body.email.s)

\* C8: under any interleaving of concurrent sessions no two stored records
\* share an email or an id, and a commit that would make two share an email
\* is rejected whole: the request ends in an error and the store is as it was.
C8_Unique ==
    /\ [](DistinctEmails(users) /\ DistinctIds(users))
    /\ [][ \A s \in Sessions :
             (WouldCollide(s) /\ sess'[s] # sess[s])
             => /\ users' = users
                /\ sess'[s].pc = "idle"
                /\ resp'.status \in {400, 500}
         ]_vars

C8_Witness ==
    /\ req.op = "update" /\ resp.status = 500
    /\ \E i \in 1..Len(users) :
         users[i].email = req.body.email.s /\ users[i].id # req.user_id
    /\ Stored(users, req.user_id)
    /\ \E s \in Sessions : sess[s].pc = "refresh" /\ sess[s].op = "create"

\* ------------------------------------------------------------------------ C9
\* C9: a create or update that fails because another stored record holds the
\* email it submits is answered 400.
C9_ConflictIs400 ==
    ( /\ req.op \in {"create", "update"}
      /\ Typed(req.body)
      /\ resp.status \notin {200, 404}
      /\ \E i \in 1..Len(users) :
           users[i].email = req.body.email.s /\ users[i].id # req.user_id )
    => resp.status = 400

\* ----------------------------------------------------------------------- C10
\* C10: each successful create assigns an id greater than every id assigned
\* before it.
C10_IdsNeverReused ==
    [][ (req'.op = "create" /\ resp'.status = 200)
        => \A i \in assigned : resp'.user.id > i
      ]_vars

====
